---- MODULE Spec2Model ----
(***************************************************************************)
(* Model of src/gf.rs: GF<P>, the prime-field element of competitive-rs.   *)
(*                                                                         *)
(* An element is its stored u64 residue.  Every operator computes a raw    *)
(* value with plain u64 arithmetic and hands it to GF::new, which converts *)
(* it to i64 (TryInto, unwrap) and reduces it with rem_euclid(P::to_i64()).*)
(* The machine word is WordBits wide here instead of 64; every width of    *)
(* the source (u64, i64, and the narrower integer types) is scaled with    *)
(* it, so that all moduli and all operands of a word can be enumerated.    *)
(* A panic is an outcome of its own (Panic), and the two build profiles    *)
(* (overflow checks on: u64 overflow panics; off: it wraps) are both       *)
(* explored.                                                               *)
(***************************************************************************)
EXTENDS Integers, FiniteSets, Sequences, TLC

\* Width of the machine word that stands for the 64-bit word of the source.
WordBits == 5

RECURSIVE Pow2(_)
Pow2(n) == IF n = 0 THEN 1 ELSE 2 * Pow2(n - 1)

\* u64: 0 ..= U64Max;  i64: I64Min ..= I64Max
U64Max == Pow2(WordBits) - 1
I64Max == Pow2(WordBits - 1) - 1
I64Min == 0 - Pow2(WordBits - 1)

\* The integer types def_ops! is instantiated for, and that From accepts.
SignedTypes == {"i8", "i16", "i32", "i64", "isize"}
UnsignedTypes == {"u8", "u16", "u32", "u64", "usize"}
IntTypes == SignedTypes \cup UnsignedTypes

\* Width of an integer type, scaled with the word (never below one bit).
TypeBits(ty) ==
    LET scaled == CASE ty \in {"i64", "isize", "u64", "usize"} -> WordBits
                    [] ty \in {"i32", "u32"} -> WordBits \div 2
                    [] ty \in {"i16", "u16"} -> WordBits \div 4
                    [] OTHER -> WordBits \div 8
    IN  IF scaled < 1 THEN 1 ELSE scaled

\* The values of an integer type.
TypeRange(ty) ==
    IF ty \in SignedTypes
    THEN (0 - Pow2(TypeBits(ty) - 1)) .. (Pow2(TypeBits(ty) - 1) - 1)
    ELSE 0 .. (Pow2(TypeBits(ty)) - 1)

\* Outcome of an expression: a value, or a panic that aborts the program.
Ok(v) == [ok |-> TRUE, v |-> v]
Panic == [ok |-> FALSE, v |-> 0]

\* An operand T: Into<GF<P>>: a field element, or a raw integer of type kind.
gf(v) == [kind |-> "gf", v |-> v]
int(ty, n) == [kind |-> ty, v |-> n]
NoOperand == [kind |-> "none", v |-> 0]

VARIABLES
    P,                \* the modulus, a type parameter fixed per instantiation
    overflow_checks,  \* build profile: TRUE = u64 overflow panics, FALSE = wraps
    x,                \* stored value of the element bound to x
    res               \* the expression evaluated last and its outcome

vars == <<P, overflow_checks, x, res>>

\* The moduli of the word: P is documented to be a prime, hence at least 2.
Moduli == 2 .. U64Max

\* P::to_u64() and P::to_i64(): typenum assembles the constant bit by bit with
\* shifts, so P::to_i64() keeps the low word of P as a two's-complement value.
P_to_u64 == P
P_to_i64 == IF P <= I64Max THEN P ELSE P - Pow2(WordBits)

\* v.try_into().ok().unwrap(): the i64 of the same value, or a panic.
try_into_i64(v) == IF I64Min <= v /\ v <= I64Max THEN Ok(v) ELSE Panic

\* i64 % : the remainder of the truncating division (sign of the dividend).
\* i64::MIN % -1 overflows and panics in every build.
rem(a, m) ==
    LET am == IF m < 0 THEN 0 - m ELSE m
    IN  IF a = I64Min /\ m = 0 - 1 THEN Panic
        ELSE IF a >= 0 THEN Ok(a % am) ELSE Ok(0 - ((0 - a) % am))

\* i64::rem_euclid: r = self % rhs; a negative r is raised by |rhs|, in
\* wrapping arithmetic (|i64::MIN| wraps to i64::MIN, and the sum wraps back).
rem_euclid(a, m) ==
    LET r == rem(a, m)
        am == IF m < 0 THEN 0 - m ELSE m
    IN  IF ~r.ok THEN Panic
        ELSE IF r.v < 0 THEN Ok(r.v + am) ELSE r

\* A defect GF::new could have: % in place of rem_euclid, so that the `as u64`
\* cast turns a negative remainder into a value near the top of the word.
new_truncating(v) ==
    LET i == try_into_i64(v)
        r == IF i.ok THEN rem(i.v, P_to_i64) ELSE Panic
    IN  IF ~r.ok THEN Panic
        ELSE IF r.v < 0 THEN Ok(r.v + Pow2(WordBits)) ELSE r

\* GF::new(v): v.try_into().ok().unwrap().rem_euclid(P::to_i64()) as u64
new(v) ==
    LET i == try_into_i64(v)
    IN  IF ~i.ok THEN Panic ELSE rem_euclid(i.v, P_to_i64)

\* From<T> for GF<P>
from(v) == new(v)

\* rhs.into(): a GF is itself, an integer goes through From.
into(rhs) == IF rhs.kind = "gf" THEN Ok(rhs.v) ELSE from(rhs.v)

\* u64 +, -, * : a result outside the word panics when the build checks
\* overflow and wraps otherwise.
u64_wrap(r) ==
    IF 0 <= r /\ r <= U64Max THEN Ok(r)
    ELSE IF overflow_checks THEN Panic
    ELSE Ok(r % Pow2(WordBits))

\* Add: Self::new(self.0 + rhs.into().0)
add(self, rhs) ==
    LET r == into(rhs)
        s == IF r.ok THEN u64_wrap(self + r.v) ELSE Panic
    IN  IF ~s.ok THEN Panic ELSE new(s.v)

\* A defect Sub could have: self.0 - rhs.0 without adding P first.
sub_without_p(self, rhs) ==
    LET r == into(rhs)
        d == IF r.ok THEN u64_wrap(self - r.v) ELSE Panic
    IN  IF ~d.ok THEN Panic ELSE new(d.v)

\* Sub: Self::new(self.0 + P::to_u64() - rhs.into().0)
sub(self, rhs) ==
    LET s == u64_wrap(self + P_to_u64)
        r == into(rhs)
        d == IF s.ok /\ r.ok THEN u64_wrap(s.v - r.v) ELSE Panic
    IN  IF ~d.ok THEN Panic ELSE new(d.v)

\* Mul: Self::new(self.0 * rhs.into().0)
mul(self, rhs) ==
    LET r == into(rhs)
        m == IF r.ok THEN u64_wrap(self * r.v) ELSE Panic
    IN  IF ~m.ok THEN Panic ELSE new(m.v)

\* The loop of GF::pow: while r > 0 { if r % 2 != 0 { ret = ret * k; }
\*                                   r /= 2; k = k * k; }  ret
RECURSIVE pow_loop(_, _, _)
pow_loop(r, k, ret) ==
    IF r = 0 THEN Ok(ret)
    ELSE LET ret1 == IF r % 2 # 0 THEN mul(ret, gf(k)) ELSE Ok(ret)
             k1 == mul(k, gf(k))
         IN  IF ~ret1.ok \/ ~k1.ok THEN Panic
             ELSE pow_loop(r \div 2, k1.v, ret1.v)

\* GF::pow(self, r): k = self; ret = GF::new(1); the loop
pow(self, r) ==
    LET one == new(1)
    IN  IF ~one.ok THEN Panic ELSE pow_loop(r, self, one.v)

\* A defect recip could have: a zero operand signalled by a panic.
recip_checked(self) == IF self = 0 THEN Panic ELSE pow(self, P_to_u64 - 2)

\* GF::recip(self): self.pow(P::to_u64() - 2)
recip(self) == pow(self, P_to_u64 - 2)

\* Div: self * rhs.into().recip()
div(self, rhs) ==
    LET r == into(rhs)
        i == IF r.ok THEN recip(r.v) ELSE Panic
    IN  IF ~i.ok THEN Panic ELSE mul(self, gf(i.v))

\* Neg: Self::new(0) - self
neg(self) ==
    LET z == new(0)
    IN  IF ~z.ok THEN Panic ELSE sub(z.v, gf(self))

\* def_ops!: an integer on the left is promoted with GF::new, then the
\* operator of GF is applied.
int_add(n, rhs) ==
    LET l == new(n) IN IF ~l.ok THEN Panic ELSE add(l.v, gf(rhs))

\* A defect def_ops! could have: the operands of the subtraction exchanged.
int_sub_swapped(n, rhs) ==
    LET l == new(n) IN IF ~l.ok THEN Panic ELSE sub(rhs, gf(l.v))

int_sub(n, rhs) ==
    LET l == new(n) IN IF ~l.ok THEN Panic ELSE sub(l.v, gf(rhs))

int_mul(n, rhs) ==
    LET l == new(n) IN IF ~l.ok THEN Panic ELSE mul(l.v, gf(rhs))

int_div(n, rhs) ==
    LET l == new(n) IN IF ~l.ok THEN Panic ELSE div(l.v, gf(rhs))

----------------------------------------------------------------------------
\* The program: statements over one binding x, as in test_gf.

\* No expression is pending: the program is between two statements.
Idle == [op |-> "none", a |-> 0, rhs |-> NoOperand, out |-> Ok(0)]

Expr(op, a, rhs, out) == [op |-> op, a |-> a, rhs |-> rhs, out |-> out]

\* The elements GF::new can build: the right operands of type GF.
Elements == {new(v).v : v \in {w \in I64Min .. I64Max : new(w).ok}}

\* The right operands of a binary operator: elements and raw integers.
Operands ==
    {gf(v) : v \in Elements}
        \cup UNION {{int(ty, n) : n \in TypeRange(ty)} : ty \in IntTypes}

\* type GF = GF<P>; let x = GF::new(v);  for some v that GF::new accepts
Init ==
    /\ P \in Moduli
    /\ overflow_checks \in BOOLEAN
    /\ x \in Elements
    /\ res = Idle

\* An expression is evaluated (a statement starts only when none is pending);
\* a panic leaves the program aborted.
Eval(op, rhs, out) ==
    /\ res' = Expr(op, x, rhs, out)
    /\ UNCHANGED <<P, overflow_checks, x>>

\* A compound assignment: *self = *self <op> rhs
Assign(op, rhs, out) ==
    /\ res' = Expr(op, x, rhs, out)
    /\ x' = IF out.ok THEN out.v ELSE x
    /\ UNCHANGED <<P, overflow_checks>>

\* GF::new(n)  /  n.into()
New == res = Idle /\ \E ty \in IntTypes : \E n \in TypeRange(ty) :
          Eval("new", int(ty, n), new(n))

Add == res = Idle /\ \E rhs \in Operands : Eval("add", rhs, add(x, rhs))
Sub == res = Idle /\ \E rhs \in Operands : Eval("sub", rhs, sub(x, rhs))
Mul == res = Idle /\ \E rhs \in Operands : Eval("mul", rhs, mul(x, rhs))
Div == res = Idle /\ \E rhs \in Operands : Eval("div", rhs, div(x, rhs))

AddAssign == res = Idle /\ \E rhs \in Operands : Assign("add_assign", rhs, add(x, rhs))
SubAssign == res = Idle /\ \E rhs \in Operands : Assign("sub_assign", rhs, sub(x, rhs))
MulAssign == res = Idle /\ \E rhs \in Operands : Assign("mul_assign", rhs, mul(x, rhs))
DivAssign == res = Idle /\ \E rhs \in Operands : Assign("div_assign", rhs, div(x, rhs))

Neg == res = Idle /\ Eval("neg", NoOperand, neg(x))
Pow == res = Idle /\ \E r \in 0 .. U64Max : Eval("pow", int("u64", r), pow(x, r))
Recip == res = Idle /\ Eval("recip", NoOperand, recip(x))

\* n <op> x for an integer n of each type of def_ops!
IntAdd == res = Idle /\ \E ty \in IntTypes : \E n \in TypeRange(ty) :
             Eval("int_add", int(ty, n), int_add(n, x))
IntSub == res = Idle /\ \E ty \in IntTypes : \E n \in TypeRange(ty) :
             Eval("int_sub", int(ty, n), int_sub(n, x))
IntMul == res = Idle /\ \E ty \in IntTypes : \E n \in TypeRange(ty) :
             Eval("int_mul", int(ty, n), int_mul(n, x))
IntDiv == res = Idle /\ \E ty \in IntTypes : \E n \in TypeRange(ty) :
             Eval("int_div", int(ty, n), int_div(n, x))

\* let x = <the expression>;  the statement ends and the next one may start.
Let ==
    /\ res # Idle
    /\ res.out.ok
    /\ x' = res.out.v
    /\ res' = Idle
    /\ UNCHANGED <<P, overflow_checks>>

Next ==
    \/ New
    \/ Add \/ Sub \/ Mul \/ Div
    \/ AddAssign \/ SubAssign \/ MulAssign \/ DivAssign
    \/ Neg \/ Pow \/ Recip
    \/ IntAdd \/ IntSub \/ IntMul \/ IntDiv
    \/ Let

Spec == Init /\ [][Next]_vars

----------------------------------------------------------------------------
\* Reference arithmetic of Z/pZ, on unbounded integers.

IsPrime(n) == n >= 2 /\ \A d \in 2 .. (n - 1) : n % d # 0

\* a^e mod P by e multiplications starting from 1.
RECURSIVE RefPow(_, _)
RefPow(a, e) == IF e = 0 THEN 1 % P ELSE (RefPow(a, e - 1) * a) % P

\* The modulus is small enough that (P-1)^2 is an i64.
SafeModulus == (P - 1) * (P - 1) <= I64Max

BinaryOps == {"add", "sub", "mul", "div"}
AssignOps == {"add_assign", "sub_assign", "mul_assign", "div_assign"}
IntLeftOps == {"int_add", "int_sub", "int_mul", "int_div"}

\* The last expression had elements for all its operands.
OnElements ==
    \/ res.op \in BinaryOps \cup AssignOps /\ res.rhs.kind = "gf"
    \/ res.op \in {"neg", "pow", "recip"}

\* The value the last expression has in Z/pZ.
Exact ==
    LET a == res.a
        b == res.rhs.v
    IN  CASE res.op \in {"add", "add_assign"} -> (a + b) % P
          [] res.op \in {"sub", "sub_assign"} -> (a - b) % P
          [] res.op \in {"mul", "mul_assign"} -> (a * b) % P
          [] res.op \in {"div", "div_assign"} -> (a * RefPow(b, P - 2)) % P
          [] res.op = "neg" -> (0 - a) % P
          [] res.op = "pow" -> RefPow(a, b)
          [] res.op = "recip" -> RefPow(a, P - 2)
          [] OTHER -> 0

----------------------------------------------------------------------------
\* C1. Range invariant: the element bound to x, and the element every
\* expression that completes returns (new, +, -, *, /, unary -, pow, recip,
\* the compound assignments and the integer-on-the-left forms, in any
\* sequence), has a stored value v with 0 <= v < P.
RangeInvariant ==
    /\ 0 <= x /\ x < P
    /\ (res # Idle /\ res.out.ok) => (0 <= res.out.v /\ res.out.v < P)

\* A compound assignment after an earlier statement stored the top residue.
RangeWitness ==
    /\ res.op = "sub_assign"
    /\ res.out.ok
    /\ res.a # 0
    /\ x = P - 1

\* C2. Multiplication is exact for every modulus: a * b of two elements
\* returns (a*b) mod P, never aborting and never a wrapped product.
MulExactEveryModulus ==
    (res.op = "mul" /\ res.rhs.kind = "gf")
        => res.out = Ok((res.a * res.rhs.v) % P)

\* C3. Totality: a + b, a - b, a * b and a.pow(e) on elements never fail and
\* return a residue in [0, P), whatever the modulus.
ArithmeticTotal ==
    (res.op \in {"add", "sub", "mul", "pow"} /\ OnElements)
        => (res.out.ok /\ res.out.v < P)

\* C4. Euclidean reduction: GF::new(v) of a v that fits an i64 is the r in
\* [0, P) with v = k*P + r.
EuclideanReduction ==
    (res.op = "new" /\ I64Min <= res.rhs.v /\ res.rhs.v <= I64Max)
        => res.out = Ok(res.rhs.v % P)

\* C5. Exponentiation: a.pow(e) is a^e mod P as e multiplications from 1
\* compute it, so a.pow(0) = 1 and a.pow(1) = a.
PowMatchesReference ==
    res.op = "pow" => res.out = Ok(RefPow(res.a, res.rhs.v))

\* C6. Inverse: for a prime P and a nonzero a, a * a.recip() = 1, and
\* (a / b) * b = a for a nonzero b.
RecipIsInverse ==
    IsPrime(P) =>
        /\ (res.op = "recip" /\ res.a # 0)
              => (res.out.ok /\ mul(res.a, gf(res.out.v)) = Ok(1))
        /\ (res.op = "div" /\ res.rhs.kind = "gf" /\ res.rhs.v # 0)
              => (res.out.ok /\ mul(res.out.v, res.rhs) = Ok(res.a))

\* C7. The inverse of zero is not signalled: for a prime P, zero.recip(),
\* a / zero and a /= zero complete and return an element of [0, P).
ZeroInverseNotSignalled ==
    IsPrime(P) =>
        /\ (res.op = "recip" /\ res.a = 0)
              => (res.out.ok /\ res.out.v < P)
        /\ (res.op \in {"div", "div_assign"} /\ into(res.rhs) = Ok(0))
              => (res.out.ok /\ res.out.v < P)

\* A nonzero element divided in place by the zero element.
ZeroInverseWitness ==
    /\ IsPrime(P)
    /\ res.op = "div_assign"
    /\ res.rhs = gf(0)
    /\ res.a # 0
    /\ res.out.ok

\* C8. Symmetric promotion: n <op> x has the outcome of GF::new(n) <op> x and
\* x <op> n the outcome of x <op> GF::new(n), for every operator and every
\* n of every integer type (a panic being an outcome); and n + x = x + n.
SymmetricPromotion ==
    LET n == new(res.rhs.v)
        a == res.a
    IN  /\ res.op \in IntLeftOps =>
              res.out = IF ~n.ok THEN Panic
                        ELSE CASE res.op = "int_add" -> add(n.v, gf(a))
                               [] res.op = "int_sub" -> sub(n.v, gf(a))
                               [] res.op = "int_mul" -> mul(n.v, gf(a))
                               [] res.op = "int_div" -> div(n.v, gf(a))
        /\ (res.op \in BinaryOps /\ res.rhs.kind \in IntTypes) =>
              res.out = IF ~n.ok THEN Panic
                        ELSE CASE res.op = "add" -> add(a, gf(n.v))
                               [] res.op = "sub" -> sub(a, gf(n.v))
                               [] res.op = "mul" -> mul(a, gf(n.v))
                               [] res.op = "div" -> div(a, gf(n.v))
        /\ res.op = "int_add" => res.out = add(a, res.rhs)

\* A negative integer on the left of a subtraction from a nonzero element.
PromotionWitness ==
    /\ res.op = "int_sub"
    /\ res.rhs.kind = "i32"
    /\ res.rhs.v < 0
    /\ res.a # 0
    /\ res.out.ok
    /\ res.out.v # res.a

\* C9. Subtraction: a - b of two elements is the Euclidean (a - b) mod P, and
\* -a is (0 - a) mod P, so that a + (-a) = 0.
SubIsEuclidean ==
    /\ (res.op = "sub" /\ res.rhs.kind = "gf")
          => res.out = Ok((res.a - res.rhs.v) % P)
    /\ res.op = "neg"
          => (res.out = Ok((0 - res.a) % P) /\ add(res.a, gf(res.out.v)) = Ok(0))

\* C10. Safe-modulus bound: when (P-1)^2 fits an i64, every operation on
\* elements completes in both build profiles (no u64 overflow, no failed
\* conversion to i64) and returns the exact value of Z/pZ; for every larger
\* modulus some product of two residues of [0, P) aborts or is wrong (this
\* part depends on the modulus and the build alone, and is evaluated between
\* statements).
SafeModulusBound ==
    /\ (SafeModulus /\ OnElements) => res.out = Ok(Exact)
    /\ (~SafeModulus /\ res = Idle) =>
          \E a \in 0 .. (P - 1) : \E b \in 0 .. (P - 1) :
              mul(a, gf(b)) # Ok((a * b) % P)

\* The largest product of a safe modulus above 2, under overflow checks.
SafeModulusWitness ==
    /\ SafeModulus
    /\ P > 2
    /\ overflow_checks
    /\ res.op = "mul"
    /\ res.a = P - 1
    /\ res.rhs = gf(P - 1)
    /\ res.out = Ok(1)

====
